---- MODULE Spec2Model ----
(***************************************************************************)
(* Model of lib/XRay/FDRRecordProducer.cpp: the metadata kind classifier   *)
(* metadataRecordType and FileBasedRecordProducer::produce.                *)
(*                                                                         *)
(* The producer holds a DataExtractor E over a buffer of Size bytes, the   *)
(* file header, and a reference to the cursor OffsetPtr.  The contents of  *)
(* the buffer are input: the byte at an offset is chosen when it is read.  *)
(* The locals of the last produce() call are kept as variables so that the *)
(* properties can speak about what the call did.                           *)
(***************************************************************************)
EXTENDS Integers, Sequences, FiniteSets, TLC

\* ---------------------------------------------------------------- bounds
MaxVersion == 6
MaxSize == 2
MaxCalls == 2

Versions == 0..MaxVersion
Bytes == 0..255

\* ------------------------------------------------------------ error values
\* An llvm::Error is modelled by the list of its payloads: <<>> is success,
\* one payload is a plain StringError, several payloads are an ErrorList.
Success == <<>>

createStringError(ec, msg, args) == << [ec |-> ec, msg |-> msg, args |-> args] >>

joinErrors(E1, E2) ==
  IF E1 = Success THEN E2
  ELSE IF E2 = Success THEN E1
  ELSE E1 \o E2

\* Expected<std::unique_ptr<Record>>: a record variant or an error.
Value(rec) == [rec |-> rec, err |-> Success]
Failure(err) == [rec |-> "null", err |-> err]

\* ------------------------------------------------- enum MetadataRecordKinds
NewBufferKind == 0
EndOfBufferKind == 1
NewCPUIdKind == 2
TSCWrapKind == 3
WalltimeMarkerKind == 4
CustomEventMarkerKind == 5
CallArgumentKind == 6
BufferExtentsKind == 7
TypedEventMarkerKind == 8
PidKind == 9
EnumEndMarker == 10

\* Result of running into llvm_unreachable.
Unreachable == [rec |-> "unreachable", err |-> Success]

InvalidKindError(T) ==
  createStringError("invalid_argument", "Invalid metadata record type: %d", <<T>>)

EndOfBufferError ==
  createStringError("executable_format_error",
    "End of buffer records are no longer supported starting version 2 of the log.",
    <<>>)

\* case EndOfBufferKind
EndOfBufferCase_gt(Hdr) ==
  IF Hdr.Version > 2 THEN Failure(EndOfBufferError)
  ELSE Value("EndBufferRecord")

EndOfBufferCase(Hdr) ==
  IF Hdr.Version >= 2 THEN Failure(EndOfBufferError)
  ELSE Value("EndBufferRecord")

\* case CustomEventMarkerKind
CustomEventMarkerCase_gt(Hdr) ==
  IF Hdr.Version > 5 THEN Value("CustomEventRecordV5")
  ELSE Value("CustomEventRecord")

CustomEventMarkerCase(Hdr) ==
  IF Hdr.Version >= 5 THEN Value("CustomEventRecordV5")
  ELSE Value("CustomEventRecord")

\* The range check in front of the switch.
IsInvalidKind_gt(T) == T > EnumEndMarker

IsInvalidKind(T) == T >= EnumEndMarker

\* The switch with the TSCWrap and Walltime results exchanged.
KindSwitch_swapped(Hdr, T) ==
  CASE T = NewBufferKind -> Value("NewBufferRecord")
    [] T = EndOfBufferKind -> EndOfBufferCase(Hdr)
    [] T = NewCPUIdKind -> Value("NewCPUIDRecord")
    [] T = TSCWrapKind -> Value("WallclockRecord")
    [] T = WalltimeMarkerKind -> Value("TSCWrapRecord")
    [] T = CustomEventMarkerKind -> CustomEventMarkerCase(Hdr)
    [] T = CallArgumentKind -> Value("CallArgRecord")
    [] T = BufferExtentsKind -> Value("BufferExtents")
    [] T = TypedEventMarkerKind -> Value("TypedEventRecord")
    [] T = PidKind -> Value("PIDRecord")
    [] T = EnumEndMarker -> Unreachable
    [] OTHER -> Unreachable

\* The switch (T) of metadataRecordType.
KindSwitch(Hdr, T) ==
  CASE T = NewBufferKind -> Value("NewBufferRecord")
    [] T = EndOfBufferKind -> EndOfBufferCase(Hdr)
    [] T = NewCPUIdKind -> Value("NewCPUIDRecord")
    [] T = TSCWrapKind -> Value("TSCWrapRecord")
    [] T = WalltimeMarkerKind -> Value("WallclockRecord")
    [] T = CustomEventMarkerKind -> CustomEventMarkerCase(Hdr)
    [] T = CallArgumentKind -> Value("CallArgRecord")
    [] T = BufferExtentsKind -> Value("BufferExtents")
    [] T = TypedEventMarkerKind -> Value("TypedEventRecord")
    [] T = PidKind -> Value("PIDRecord")
    [] T = EnumEndMarker -> Unreachable
    [] OTHER -> Unreachable

\* metadataRecordType with the range check dropped to the last real kind,
\* so that PidKind is rejected.
metadataRecordType_noPid(Hdr, T) ==
  IF T >= PidKind THEN Failure(InvalidKindError(T))
  ELSE KindSwitch(Hdr, T)

metadataRecordType(Hdr, T) ==
  IF IsInvalidKind(T) THEN Failure(InvalidKindError(T))
  ELSE KindSwitch(Hdr, T)

\* ------------------------------------------------------------ DataExtractor
\* E.getU8(&OffsetPtr) on a buffer of size bytes whose byte at off is byte:
\* a read past the end returns 0 and leaves the offset alone.
getU8(size, off, byte) ==
  IF off < size THEN [val |-> byte, off |-> off + 1]
  ELSE [val |-> 0, off |-> off]

\* ------------------------------------------------------- RecordInitializer
\* R->apply(RI): the initializer works on the producer's cursor, consumes n
\* payload bytes and succeeds or fails.
InitError ==
  createStringError("initializer", "record initialization failed", <<>>)

NotApplied == [called |-> FALSE, start |-> 0, consumed |-> 0, err |-> Success]

apply(rec, off, n, ok) ==
  [called |-> TRUE, start |-> off, consumed |-> n,
   err |-> IF ok THEN Success ELSE InitError]

\* ------------------------------------------------------------------ produce
NotLoaded == -1
NotCalled == [rec |-> "notcalled", err |-> Success]

TruncatedError(off) ==
  createStringError("executable_format_error",
    "Failed reading one byte from offset %d.", <<off>>)

UnsupportedError(kind, off) ==
  createStringError("executable_format_error",
    "Encountered an unsupported metadata record (%d) at offset %d.",
    <<kind, off>>)

\* Reading the discriminant without the check for a failed read.
ReadFirstByte_unchecked(size, off, byte) ==
  LET rd == getU8(size, off, byte) IN
  [PreReadOffset |-> off, FirstByte |-> rd.val, OffsetPtr |-> rd.off,
   err |-> Success]

\* Reading the discriminant: the read and the check of the offset.
ReadFirstByte(size, off, byte) ==
  LET rd == getU8(size, off, byte) IN
  [PreReadOffset |-> off, FirstByte |-> rd.val, OffsetPtr |-> rd.off,
   err |-> IF rd.off = off THEN TruncatedError(rd.off) ELSE Success]

\* Selecting the record with the metadata test on the kind bits.
SelectRecord_kindbits(Hdr, FB, Pre) ==
  IF (FB \div 2) # 0
  THEN LET LT == FB \div 2
           M == metadataRecordType(Hdr, LT % 256) IN
       [LoadedType |-> LT, MetadataRecordOrErr |-> M,
        R |-> M.rec,
        err |-> IF M.err # Success
                THEN joinErrors(M.err, UnsupportedError(LT, Pre))
                ELSE Success]
  ELSE [LoadedType |-> NotLoaded, MetadataRecordOrErr |-> NotCalled,
        R |-> "FunctionRecord", err |-> Success]

\* Selecting the record with the classifier's error replaced by the context.
SelectRecord_replace(Hdr, FB, Pre) ==
  IF FB % 2 = 1
  THEN LET LT == FB \div 2
           M == metadataRecordType(Hdr, LT % 256) IN
       [LoadedType |-> LT, MetadataRecordOrErr |-> M,
        R |-> M.rec,
        err |-> IF M.err # Success
                THEN UnsupportedError(LT, Pre)
                ELSE Success]
  ELSE [LoadedType |-> NotLoaded, MetadataRecordOrErr |-> NotCalled,
        R |-> "FunctionRecord", err |-> Success]

\* Selecting the record: the classifier for a metadata discriminant, the
\* function record otherwise.
SelectRecord(Hdr, FB, Pre) ==
  IF FB % 2 = 1
  THEN LET LT == FB \div 2
           M == metadataRecordType(Hdr, LT % 256) IN
       [LoadedType |-> LT, MetadataRecordOrErr |-> M,
        R |-> M.rec,
        err |-> IF M.err # Success
                THEN joinErrors(M.err, UnsupportedError(LT, Pre))
                ELSE Success]
  ELSE [LoadedType |-> NotLoaded, MetadataRecordOrErr |-> NotCalled,
        R |-> "FunctionRecord", err |-> Success]

\* Initializing with a cursor of the initializer's own.
Initialize_copy(rec, off, n, ok) ==
  LET ri == apply(rec, off, n, ok) IN
  [RI |-> ri, OffsetPtr |-> off,
   Ret |-> IF ri.err # Success THEN Failure(ri.err) ELSE Value(rec)]

\* Initializing with the initializer's error wrapped and the cursor rewound.
Initialize_wrap(rec, off, n, ok) ==
  LET ri == apply(rec, off, n, ok) IN
  [RI |-> ri,
   OffsetPtr |-> IF ri.err # Success THEN off ELSE off + ri.consumed,
   Ret |-> IF ri.err # Success
           THEN Failure(joinErrors(ri.err, UnsupportedError(0, off)))
           ELSE Value(rec)]

\* RecordInitializer RI(E, OffsetPtr); R->apply(RI); return.
Initialize(rec, off, n, ok) ==
  LET ri == apply(rec, off, n, ok) IN
  [RI |-> ri, OffsetPtr |-> off + ri.consumed,
   Ret |-> IF ri.err # Success THEN Failure(ri.err) ELSE Value(rec)]

\* FileBasedRecordProducer::produce() from cursor off on a buffer of size
\* bytes; byte is the byte at off, n and ok what the initializer does.
produce(Hdr, size, off, byte, n, ok) ==
  LET rd == ReadFirstByte(size, off, byte) IN
  IF rd.err # Success
  THEN [OffsetPtr |-> rd.OffsetPtr, PreReadOffset |-> rd.PreReadOffset,
        FirstByte |-> rd.FirstByte, LoadedType |-> NotLoaded,
        MetadataRecordOrErr |-> NotCalled, R |-> "null", RI |-> NotApplied,
        Ret |-> Failure(rd.err), ub |-> FALSE]
  ELSE
    LET sel == SelectRecord(Hdr, rd.FirstByte, rd.PreReadOffset) IN
    IF sel.MetadataRecordOrErr = Unreachable
    THEN [OffsetPtr |-> rd.OffsetPtr, PreReadOffset |-> rd.PreReadOffset,
          FirstByte |-> rd.FirstByte, LoadedType |-> sel.LoadedType,
          MetadataRecordOrErr |-> sel.MetadataRecordOrErr, R |-> "null",
          RI |-> NotApplied, Ret |-> Unreachable, ub |-> TRUE]
    ELSE IF sel.err # Success
    THEN [OffsetPtr |-> rd.OffsetPtr, PreReadOffset |-> rd.PreReadOffset,
          FirstByte |-> rd.FirstByte, LoadedType |-> sel.LoadedType,
          MetadataRecordOrErr |-> sel.MetadataRecordOrErr, R |-> "null",
          RI |-> NotApplied, Ret |-> Failure(sel.err), ub |-> FALSE]
    ELSE
      LET ini == Initialize(sel.R, rd.OffsetPtr, n, ok) IN
      [OffsetPtr |-> ini.OffsetPtr, PreReadOffset |-> rd.PreReadOffset,
       FirstByte |-> rd.FirstByte, LoadedType |-> sel.LoadedType,
       MetadataRecordOrErr |-> sel.MetadataRecordOrErr, R |-> sel.R,
       RI |-> ini.RI, Ret |-> ini.Ret, ub |-> FALSE]

\* -------------------------------------------------------------------- state
VARIABLES Header, Size, OffsetPtr, calls,
          PreReadOffset, FirstByte, LoadedType, MetadataRecordOrErr, R, RI, Ret

vars == <<Header, Size, OffsetPtr, calls,
          PreReadOffset, FirstByte, LoadedType, MetadataRecordOrErr, R, RI, Ret>>

NoCall == [rec |-> "nocall", err |-> Success]

RecordTypes ==
  {"NewBufferRecord", "EndBufferRecord", "NewCPUIDRecord", "TSCWrapRecord",
   "WallclockRecord", "CustomEventRecord", "CustomEventRecordV5",
   "CallArgRecord", "BufferExtents", "TypedEventRecord", "PIDRecord",
   "FunctionRecord"}

Init ==
  /\ Header \in [Version : Versions]
  /\ Size \in 0..MaxSize
  /\ OffsetPtr = 0
  /\ calls = 0
  /\ PreReadOffset = 0
  /\ FirstByte = 0
  /\ LoadedType = NotLoaded
  /\ MetadataRecordOrErr = NotCalled
  /\ R = "null"
  /\ RI = NotApplied
  /\ Ret = NoCall

\* The choices left to the initializer by a call that reads byte: at most
\* the bytes behind the discriminant, none when the call returns before the
\* initializer runs.
Remaining(size, off) == IF size > off + 1 THEN size - (off + 1) ELSE 0

Payloads(reached, size, off) ==
  IF reached THEN 0..Remaining(size, off) ELSE {0}

Outcomes(reached) ==
  IF reached THEN BOOLEAN ELSE {TRUE}

\* One call of produce().  After llvm_unreachable anything may come back.
Produce ==
  /\ calls < MaxCalls
  /\ Ret # Unreachable
  /\ \E byte \in (IF OffsetPtr < Size THEN Bytes ELSE {0}) :
     \E reached \in {produce(Header, Size, OffsetPtr, byte, 0, TRUE).RI.called} :
     \E n \in Payloads(reached, Size, OffsetPtr), ok \in Outcomes(reached) :
     \E res \in {produce(Header, Size, OffsetPtr, byte, n, ok)} :
          /\ PreReadOffset' = res.PreReadOffset
          /\ FirstByte' = res.FirstByte
          /\ LoadedType' = res.LoadedType
          /\ MetadataRecordOrErr' = res.MetadataRecordOrErr
          /\ R' = res.R
          /\ RI' = res.RI
          /\ IF res.ub
             THEN /\ OffsetPtr' \in 0..Size
                  /\ Ret' = Unreachable
             ELSE /\ OffsetPtr' = res.OffsetPtr
                  /\ Ret' = res.Ret
  /\ calls' = calls + 1
  /\ UNCHANGED <<Header, Size>>

Next == Produce

Spec == Init /\ [][Next]_vars

\* ---------------------------------------------------------------- properties
UnknownKind(k) == Failure(InvalidKindError(k))

\* C1 as stated: every kind code 9..127 is rejected by the classifier with
\* the invalid-kind error, and produce() returns no record.
C1_Original ==
  (LoadedType \in 9..127) =>
    /\ MetadataRecordOrErr = UnknownKind(LoadedType)
    /\ R = "null"
    /\ Ret.rec = "null"

\* C1 amended: every kind code 10..127 is rejected by the classifier with the
\* invalid-kind error whatever the version, and produce() returns no record;
\* kind code 9 selects the PID record whatever the version.
C1_Amended ==
  /\ (LoadedType \in 10..127) =>
       /\ MetadataRecordOrErr = UnknownKind(LoadedType)
       /\ MetadataRecordOrErr.err[1].ec = "invalid_argument"
       /\ R = "null"
       /\ Ret.rec = "null"
       /\ Ret.err # Success
  /\ (LoadedType = 9) => MetadataRecordOrErr = Value("PIDRecord")

C1_Witness ==
  /\ LoadedType = 127
  /\ FirstByte = 255
  /\ Ret.rec = "null"
  /\ Ret.err # Success

\* C2: kind code 1 yields the EndOfBuffer record iff version < 2, and the
\* unsupported-for-version error with no record for every version >= 2.
C2_EndOfBuffer ==
  (LoadedType = 1) =>
    IF Header.Version < 2
    THEN MetadataRecordOrErr = Value("EndBufferRecord")
    ELSE /\ MetadataRecordOrErr = Failure(EndOfBufferError)
         /\ R = "null"
         /\ Ret.rec = "null"
         /\ Ret.err # Success

C2_Witness ==
  /\ Size = 1
  /\ FirstByte = 3
  /\ Header.Version = 2
  /\ MetadataRecordOrErr.err = EndOfBufferError
  /\ Ret.rec = "null"

\* C3: kind code 5 never fails; it selects the legacy custom event record iff
\* version < 5 and the version-5 record otherwise.
C3_CustomEvent ==
  (LoadedType = 5) =>
    /\ MetadataRecordOrErr.err = Success
    /\ (MetadataRecordOrErr.rec = "CustomEventRecord") <=> (Header.Version < 5)
    /\ (MetadataRecordOrErr.rec = "CustomEventRecordV5") <=> (Header.Version >= 5)

C3_Witness ==
  /\ LoadedType = 5
  /\ Header.Version = 5
  /\ MetadataRecordOrErr = Value("CustomEventRecordV5")

FixedVariant ==
  [k \in {0, 2, 3, 4, 6, 7, 8} |->
     CASE k = 0 -> "NewBufferRecord"
       [] k = 2 -> "NewCPUIDRecord"
       [] k = 3 -> "TSCWrapRecord"
       [] k = 4 -> "WallclockRecord"
       [] k = 6 -> "CallArgRecord"
       [] k = 7 -> "BufferExtents"
       [] k = 8 -> "TypedEventRecord"]

\* C4: for kind codes 0,2,3,4,6,7,8 the classifier succeeds with the variant
\* of the kind-code table, the same for every version.
C4_FixedKinds ==
  (LoadedType \in {0, 2, 3, 4, 6, 7, 8}) =>
    MetadataRecordOrErr = Value(FixedVariant[LoadedType])

C4_Witness ==
  /\ LoadedType = 3
  /\ Header.Version = MaxVersion
  /\ MetadataRecordOrErr = Value("TSCWrapRecord")

\* C5: a call that reads a discriminant with bit 0 clear does not call the
\* classifier, selects the function record, runs the initializer with the
\* cursor one past the start, and returns a function record if that succeeds.
C5_Function ==
  [][(OffsetPtr < Size /\ FirstByte' % 2 = 0) =>
       /\ MetadataRecordOrErr' = NotCalled
       /\ LoadedType' = NotLoaded
       /\ R' = "FunctionRecord"
       /\ RI'.called
       /\ RI'.start = OffsetPtr + 1
       /\ (RI'.err = Success => Ret' = Value("FunctionRecord"))]_vars

C5_Witness ==
  /\ FirstByte = 254
  /\ RI.called
  /\ RI.start = PreReadOffset + 1
  /\ Ret = Value("FunctionRecord")

\* C6: a call with the cursor at the end of the buffer fails with the
\* truncation error naming the starting offset, leaves the cursor where it
\* was and runs neither the classifier nor the initializer; a call after
\* such a failure fails the same way.
C6_Truncated ==
  [][/\ (OffsetPtr >= Size) =>
          /\ Ret' = Failure(TruncatedError(OffsetPtr))
          /\ OffsetPtr' = OffsetPtr
          /\ MetadataRecordOrErr' = NotCalled
          /\ ~RI'.called
     /\ (calls > 0 /\ Ret = Failure(TruncatedError(PreReadOffset))) =>
          /\ Ret' = Ret
          /\ OffsetPtr' = OffsetPtr]_vars

C6_Witness ==
  /\ calls = 2
  /\ Size > 0
  /\ OffsetPtr = Size
  /\ PreReadOffset = Size
  /\ Ret = Failure(TruncatedError(Size))

\* C7: a successful call leaves the cursor at its start plus one plus the
\* bytes the initializer consumed; the cursor never moves back, a successful
\* call moves it forward, and every call starts where the last one ended.
C7_Cursor ==
  [][/\ (Ret'.rec # "null") =>
          /\ OffsetPtr' = OffsetPtr + 1 + RI'.consumed
          /\ OffsetPtr' >= OffsetPtr + 1
     /\ OffsetPtr' >= OffsetPtr
     /\ PreReadOffset' = OffsetPtr]_vars

C7_Witness ==
  /\ calls = 2
  /\ PreReadOffset > 0
  /\ Ret.rec \in RecordTypes
  /\ OffsetPtr = PreReadOffset + 1 + RI.consumed

\* C8: when the classifier fails, produce() returns the classifier's error
\* joined with a context error carrying the kind code and the offset the
\* record started at; the initializer is not run and the cursor stays one
\* past the start.
C8_Context ==
  (MetadataRecordOrErr.err # Success) =>
    /\ Ret.rec = "null"
    /\ Len(Ret.err) = 2
    /\ <<Ret.err[1]>> = MetadataRecordOrErr.err
    /\ Ret.err[2].args = <<LoadedType, PreReadOffset>>
    /\ ~RI.called
    /\ OffsetPtr = PreReadOffset + 1

C8_Witness ==
  /\ calls = 2
  /\ PreReadOffset = 1
  /\ MetadataRecordOrErr.err # Success
  /\ Ret.err[2].args = <<LoadedType, 1>>

\* C9: when the initializer fails, produce() returns the initializer's error
\* as it is and no record, and the cursor stays where the initializer left
\* it: the start plus one plus the bytes it consumed.
C9_InitFailure ==
  (RI.called /\ RI.err # Success) =>
    /\ Ret = Failure(RI.err)
    /\ Ret.err = InitError
    /\ RI.start = PreReadOffset + 1
    /\ OffsetPtr = PreReadOffset + 1 + RI.consumed

C9_Witness ==
  /\ RI.called
  /\ RI.err # Success
  /\ RI.consumed > 0
  /\ Ret.rec = "null"

\* C10: for every kind code 0..127 the classifier returns a variant or an
\* error; llvm_unreachable is never run.
C10_NoUnreachable ==
  /\ Ret # Unreachable
  /\ (LoadedType \in 0..127) =>
       \/ MetadataRecordOrErr.rec \in RecordTypes /\ MetadataRecordOrErr.err = Success
       \/ MetadataRecordOrErr.rec = "null" /\ MetadataRecordOrErr.err # Success

C10_Witness ==
  /\ LoadedType = 10
  /\ MetadataRecordOrErr.rec = "null"
  /\ MetadataRecordOrErr.err # Success

====
